---- MODULE Spec2Model ----
(***************************************************************************)
(* Model of homeassistant/components/jellyfin/media_source.py: the         *)
(* JellyfinSource media source (browse and resolve) on top of the external  *)
(* Jellyfin client.                                                         *)
(*                                                                          *)
(* A Python dict key that may be missing is an option: <<>> when the key    *)
(* is absent, <<v>> when it is present with value v.  A key is optional     *)
(* where the source tests for its presence: CollectionType of a folder      *)
(* (l.166), Name of an artist, album, movie or series (l.217, 256, 356,     *)
(* 417), IndexNumber of a track, season or episode (l.295, 456, 495),       *)
(* MediaSources and Path (l.565, 571).  The other keys the source reads are *)
(* always present.  Reading an absent key with item[KEY] is a KeyError.     *)
(***************************************************************************)
EXTENDS Integers, Sequences, FiniteSets, TLC

VARIABLES
    hassData,    \* hass.data.get(DOMAIN): "absent", "empty" or "loaded"
    folders,     \* the server's top-level media folders, in response order
    items,       \* the server's other items, in response order
    op,          \* the last call: "none", "browse" or "resolve"
    identifier,  \* item.identifier of the last call
    outcome,     \* how the last call ended: [kind, detail]
    node,        \* the BrowseMediaSource the last browse returned (option)
    play,        \* the PlayMedia the last resolve returned (option)
    calls,       \* the client operations the last call invoked, in order
    offered      \* playable children returned by browse since the catalog last changed

vars == <<hassData, folders, items, op, identifier, outcome, node, play, calls, offered>>

----------------------------------------------------------------------------
(* Bounds of the model *)

MaxItems == 3      \* children under the browsed parent
MaxFolders == 2    \* top-level media folders

----------------------------------------------------------------------------
(* Python values *)

None == <<>>
Some(v) == <<v>>
PyNone == "None"

\* const.py names imported at l.24-50
ITEM_TYPE_LIBRARY == "CollectionFolder"
ITEM_TYPE_ARTIST == "MusicArtist"
ITEM_TYPE_ALBUM == "MusicAlbum"
ITEM_TYPE_AUDIO == "Audio"
ITEM_TYPE_SERIES == "Series"
ITEM_TYPE_SEASON == "Season"
ITEM_TYPE_EPISODE == "Episode"
ITEM_TYPE_MOVIE == "Movie"
ITEM_TYPE_BOOK == "Book"

COLLECTION_TYPE_MUSIC == "music"
COLLECTION_TYPE_MOVIES == "movies"
COLLECTION_TYPE_TVSHOWS == "tvshows"
COLLECTION_TYPE_BOXSETS == "boxsets"

MEDIA_TYPE_AUDIO == "Audio"
MEDIA_TYPE_VIDEO == "Video"
MEDIA_TYPE_BOOK == "Book"
MEDIA_TYPE_UNKNOWN == "Unknown"
MEDIA_TYPE_NONE == ""

SUPPORTED_COLLECTION_TYPES ==
    {COLLECTION_TYPE_MUSIC, COLLECTION_TYPE_MOVIES, COLLECTION_TYPE_TVSHOWS}

PLAYABLE_ITEM_TYPES == {ITEM_TYPE_AUDIO, ITEM_TYPE_EPISODE, ITEM_TYPE_MOVIE}

\* MediaClass members used by the builders
MC_DIRECTORY == "directory"
MC_ARTIST == "artist"
MC_ALBUM == "album"
MC_TRACK == "track"
MC_MOVIE == "movie"
MC_TV_SHOW == "tv_show"
MC_SEASON == "season"
MC_EPISODE == "episode"

----------------------------------------------------------------------------
(* _media_mime_type, l.563-583 *)

\* mimetypes.guess_type on a path [stem, ext]: the type mapped from the
\* extension, None when the extension is empty or unknown
guess_type(path) ==
    CASE path.ext = "mp3" -> "audio/mpeg"
      [] path.ext = "mp4" -> "video/mp4"
      [] path.ext = "pdf" -> "application/pdf"
      [] OTHER -> PyNone

\* _media_mime_type looking past the first media source, for the first one with a path
mime_of_first_path(media_item) ==
    IF media_item.MediaSources = None THEN PyNone
    ELSE LET media_sources == SelectSeq(media_item.MediaSources[1],
                                        LAMBDA media_source : media_source.Path # None)
         IN  IF media_sources = <<>> THEN PyNone
             ELSE guess_type(media_sources[1].Path[1])

media_mime_type(media_item) ==
    IF media_item.MediaSources = None \/ media_item.MediaSources[1] = <<>>
    THEN PyNone
    ELSE LET media_source == media_item.MediaSources[1][1]
         IN  IF media_source.Path = None
             THEN PyNone
             ELSE guess_type(media_source.Path[1])

----------------------------------------------------------------------------
(* sorted(..., key=lambda k: (KEY not in k, k.get(KEY))), l.212-220 etc. *)

\* ord() of the one-character names of the model
Ord(s) == CASE s = "A" -> 65 [] s = "B" -> 66 [] s = "C" -> 67

\* the key tuple; k.get(KEY) of an absent key is None, which only ever meets
\* another None (the first components then differ otherwise), written 0
SortKey(k, field) ==
    IF field = "Name"
    THEN IF k.Name = None THEN <<1, 0>> ELSE <<0, Ord(k.Name[1])>>
    ELSE IF k.IndexNumber = None THEN <<1, 0>> ELSE <<0, k.IndexNumber[1]>>

\* Python's tuple comparison a < b
KeyLess(a, b) == a[1] < b[1] \/ (a[1] = b[1] /\ a[2] < b[2])

\* insert x into the sorted list s after every element not greater than x
InsertSorted(s, x, field) ==
    LET p == Cardinality({i \in 1..Len(s) :
                 ~KeyLess(SortKey(x, field), SortKey(s[i], field))})
    IN  SubSeq(s, 1, p) \o <<x>> \o SubSeq(s, p + 1, Len(s))

RECURSIVE StableSort(_, _)
StableSort(s, field) ==
    IF s = <<>> THEN <<>>
    ELSE InsertSorted(StableSort(SubSeq(s, 1, Len(s) - 1), field), s[Len(s)], field)

\* a listing that keeps the order of the response
unsorted(s, field) == s

\* sorted() is stable
sorted(s, field) == StableSort(s, field)

----------------------------------------------------------------------------
(* The external Jellyfin server behind client.jellyfin *)

\* one recorded client operation: its name, its arguments and its response
Call(name, id, itemType, fields, resp) ==
    [op |-> name, id |-> id, itemType |-> itemType, fields |-> fields, resp |-> resp]

AllItems == folders \o items

Known(id) == \E i \in 1..Len(AllItems) : AllItems[i].Id = id

ItemOf(id) == AllItems[CHOOSE i \in 1..Len(AllItems) : AllItems[i].Id = id]

\* "Recursive": "true" makes the query range over all descendants of ParentId
RECURSIVE IsDescendant(_, _, _)
IsDescendant(it, parent_id, fuel) ==
    \/ it.ParentId = parent_id
    \/ /\ fuel > 0
       /\ Known(it.ParentId)
       /\ IsDescendant(ItemOf(it.ParentId), parent_id, fuel - 1)

\* the server sends MediaSources in a listing only when "Fields" asks for it
Listed(it, fields) ==
    IF fields = "MediaSources" THEN it ELSE [it EXCEPT !.MediaSources = None]

\* the response["Items"] of client.jellyfin.user_items("", params)
user_items(parent_id, item_type, fields) ==
    LET hit(it) == it.Type = item_type /\ IsDescendant(it, parent_id, Len(AllItems))
        found == SelectSeq(items, hit)
    IN  [i \in 1..Len(found) |-> Listed(found[i], fields)]

----------------------------------------------------------------------------
(* Results of the builders: a value with the client calls made, or the     *)
(* exception raised with the client calls made before it                    *)

Ok(v, c) == [ok |-> TRUE, value |-> v, kind |-> "ok", detail |-> "", calls |-> c]
Raise(kind, detail, c) ==
    [ok |-> FALSE, value |-> <<>>, kind |-> kind, detail |-> detail, calls |-> c]

RECURSIVE ConcatCalls(_, _)
ConcatCalls(rs, n) == IF n = 0 THEN <<>> ELSE ConcatCalls(rs, n - 1) \o rs[n].calls

\* a list comprehension over builder results: the list of the values, or the
\* first exception in list order
Collect(rs) ==
    IF \E i \in 1..Len(rs) : ~rs[i].ok
    THEN LET f == CHOOSE i \in 1..Len(rs) :
                      ~rs[i].ok /\ \A j \in 1..(i - 1) : rs[j].ok
         IN  Raise(rs[f].kind, rs[f].detail, ConcatCalls(rs, f))
    ELSE Ok([i \in 1..Len(rs) |-> rs[i].value], ConcatCalls(rs, Len(rs)))

\* BrowseMediaSource(...); children and children_media_class default to None
BrowseMediaSource(id, media_class, content_type, title, can_play, can_expand, thumbnail) ==
    [identifier |-> id, media_class |-> media_class,
     media_content_type |-> content_type, title |-> title,
     can_play |-> can_play, can_expand |-> can_expand, thumbnail |-> thumbnail,
     children_media_class |-> PyNone, children |-> None]

WithChildren(result, children_media_class, children) ==
    [result EXCEPT !.children_media_class = children_media_class,
                   !.children = Some(children)]

----------------------------------------------------------------------------
(* _get_children, l.525-538 *)

get_children(parent_id, item_type) ==
    LET fields == IF item_type \in PLAYABLE_ITEM_TYPES THEN "MediaSources" ELSE PyNone
        resp == user_items(parent_id, item_type, fields)
    IN  Ok(resp, <<Call("user_items", parent_id, item_type, fields, resp)>>)

(* _get_thumbnail_url, l.540-548 *)

get_thumbnail_url(media_item) ==
    IF "Primary" \notin media_item.ImageTags
    THEN Ok(None, <<>>)
    ELSE Ok(Some(<<"artwork", media_item.Id, "Primary", "MAX_IMAGE_WIDTH">>),
            <<Call("artwork", media_item.Id, "", "", <<>>)>>)

(* _get_stream_url, l.550-560 *)

get_stream_url(media_item) ==
    LET media_type == media_item.MediaType
        item_id == media_item.Id
    IN  IF media_type = MEDIA_TYPE_AUDIO
        THEN Ok(<<"audio_url", item_id>>, <<Call("audio_url", item_id, "", "", <<>>)>>)
        ELSE IF media_type = MEDIA_TYPE_VIDEO
        THEN Ok(<<"video_url", item_id>>, <<Call("video_url", item_id, "", "", <<>>)>>)
        ELSE Raise("BrowseError", media_type, <<>>)

----------------------------------------------------------------------------
(* The shape shared by the builders *)

\* item[ITEM_KEY_NAME] of a builder: KeyError when the key is absent
HasName(media_item) == media_item.Name # None

\* the calls of a step followed by a second step that may raise
Then(made, next) ==
    IF next.ok THEN Ok(next.value, made \o next.calls)
    ELSE Raise(next.kind, next.detail, made \o next.calls)

\* the builders' shape without the "if include_children:" test: children always attached
built_with_children(result, thumbnail_url, include_children, children_media_class, children) ==
    LET with_thumbnail == [result EXCEPT !.thumbnail = thumbnail_url.value]
    IN  IF children.ok
        THEN Ok(WithChildren(with_thumbnail, children_media_class, children.value),
                thumbnail_url.calls \o children.calls)
        ELSE Raise(children.kind, children.detail, thumbnail_url.calls \o children.calls)

\* result = BrowseMediaSource(..., thumbnail=thumbnail_url); if include_children:
\* result.children_media_class = ...; result.children = ...; return result
Built(result, thumbnail_url, include_children, children_media_class, children) ==
    LET with_thumbnail == [result EXCEPT !.thumbnail = thumbnail_url.value]
    IN  IF ~include_children THEN Ok(with_thumbnail, thumbnail_url.calls)
        ELSE IF children.ok
        THEN Ok(WithChildren(with_thumbnail, children_media_class, children.value),
                thumbnail_url.calls \o children.calls)
        ELSE Raise(children.kind, children.detail, thumbnail_url.calls \o children.calls)

NoThumbnail == Ok(None, <<>>)
NoChildren == Ok(<<>>, <<>>)

----------------------------------------------------------------------------
(* Music: tracks, albums, artists, l.183-323 *)

build_track(track) ==
    IF ~HasName(track) THEN Raise("KeyError", "Name", <<>>)
    ELSE Built(BrowseMediaSource(Some(track.Id), MC_TRACK, media_mime_type(track),
                                 track.Name[1], TRUE, FALSE, None),
               get_thumbnail_url(track), FALSE, PyNone, NoChildren)

\* tracks_of without the "if _media_mime_type(track) is not None" of l.302
tracks_unfiltered(fetched) ==
    LET tracks == sorted(fetched, "IndexNumber")
    IN  Collect([i \in 1..Len(tracks) |-> build_track(tracks[i])])

tracks_of(fetched) ==
    LET tracks == sorted(fetched, "IndexNumber")
        kept == SelectSeq(tracks, LAMBDA track : media_mime_type(track) # PyNone)
    IN  Collect([i \in 1..Len(kept) |-> build_track(kept[i])])

build_tracks(album_id) ==
    LET fetched == get_children(album_id, ITEM_TYPE_AUDIO)
    IN  Then(fetched.calls, tracks_of(fetched.value))

build_album(album, include_children) ==
    IF ~HasName(album) THEN Raise("KeyError", "Name", <<>>)
    ELSE Built(BrowseMediaSource(Some(album.Id), MC_ALBUM, MEDIA_TYPE_NONE,
                                 album.Name[1], FALSE, TRUE, None),
               get_thumbnail_url(album), include_children,
               MC_TRACK, build_tracks(album.Id))

albums_of(fetched) ==
    LET albums == sorted(fetched, "Name")
    IN  Collect([i \in 1..Len(albums) |-> build_album(albums[i], FALSE)])

build_albums(parent_id) ==
    LET fetched == get_children(parent_id, ITEM_TYPE_ALBUM)
    IN  Then(fetched.calls, albums_of(fetched.value))

build_artist(artist, include_children) ==
    IF ~HasName(artist) THEN Raise("KeyError", "Name", <<>>)
    ELSE Built(BrowseMediaSource(Some(artist.Id), MC_ARTIST, MEDIA_TYPE_NONE,
                                 artist.Name[1], FALSE, TRUE, None),
               get_thumbnail_url(artist), include_children,
               MC_ALBUM, build_albums(artist.Id))

artists_of(fetched) ==
    LET artists == sorted(fetched, "Name")
    IN  Collect([i \in 1..Len(artists) |-> build_artist(artists[i], FALSE)])

build_artists(library_id) ==
    LET fetched == get_children(library_id, ITEM_TYPE_ARTIST)
    IN  Then(fetched.calls, artists_of(fetched.value))

\* l.200-205: the artists, or the albums when there is no artist
music_children(result, artists, albums) ==
    IF ~artists.ok THEN artists
    ELSE IF artists.value # <<>>
    THEN Ok(WithChildren(result, MC_ARTIST, artists.value), artists.calls)
    ELSE IF albums.ok
    THEN Ok(WithChildren(result, MC_ALBUM, albums.value), artists.calls \o albums.calls)
    ELSE Raise(albums.kind, albums.detail, artists.calls \o albums.calls)

build_music_library(library, include_children) ==
    IF ~HasName(library) THEN Raise("KeyError", "Name", <<>>)
    ELSE IF ~include_children
    THEN Ok(BrowseMediaSource(Some(library.Id), MC_DIRECTORY, MEDIA_TYPE_NONE,
                              library.Name[1], FALSE, TRUE, None), <<>>)
    ELSE music_children(BrowseMediaSource(Some(library.Id), MC_DIRECTORY, MEDIA_TYPE_NONE,
                                          library.Name[1], FALSE, TRUE, None),
                        build_artists(library.Id), build_albums(library.Id))

----------------------------------------------------------------------------
(* Movies, l.325-384 *)

build_movie(movie) ==
    IF ~HasName(movie) THEN Raise("KeyError", "Name", <<>>)
    ELSE Built(BrowseMediaSource(Some(movie.Id), MC_MOVIE, media_mime_type(movie),
                                 movie.Name[1], TRUE, FALSE, None),
               get_thumbnail_url(movie), FALSE, PyNone, NoChildren)

\* movies_of without the "if _media_mime_type(movie) is not None" of l.363
movies_unfiltered(fetched) ==
    LET movies == sorted(fetched, "Name")
    IN  Collect([i \in 1..Len(movies) |-> build_movie(movies[i])])

movies_of(fetched) ==
    LET movies == sorted(fetched, "Name")
        kept == SelectSeq(movies, LAMBDA movie : media_mime_type(movie) # PyNone)
    IN  Collect([i \in 1..Len(kept) |-> build_movie(kept[i])])

build_movies(library_id) ==
    LET fetched == get_children(library_id, ITEM_TYPE_MOVIE)
    IN  Then(fetched.calls, movies_of(fetched.value))

build_movie_library(library, include_children) ==
    IF ~HasName(library) THEN Raise("KeyError", "Name", <<>>)
    ELSE Built(BrowseMediaSource(Some(library.Id), MC_DIRECTORY, MEDIA_TYPE_NONE,
                                 library.Name[1], FALSE, TRUE, None),
               NoThumbnail, include_children, MC_MOVIE, build_movies(library.Id))

----------------------------------------------------------------------------
(* TV shows: episodes, seasons, series, l.386-523 *)

build_episode(episode) ==
    IF ~HasName(episode) THEN Raise("KeyError", "Name", <<>>)
    ELSE Built(BrowseMediaSource(Some(episode.Id), MC_EPISODE, media_mime_type(episode),
                                 episode.Name[1], TRUE, FALSE, None),
               get_thumbnail_url(episode), FALSE, PyNone, NoChildren)

episodes_of(fetched) ==
    LET episodes == sorted(fetched, "IndexNumber")
        kept == SelectSeq(episodes, LAMBDA episode : media_mime_type(episode) # PyNone)
    IN  Collect([i \in 1..Len(kept) |-> build_episode(kept[i])])

build_episodes(season_id) ==
    LET fetched == get_children(season_id, ITEM_TYPE_EPISODE)
    IN  Then(fetched.calls, episodes_of(fetched.value))

\* l.473: a season node is given MediaClass.TV_SHOW
build_season(season, include_children) ==
    IF ~HasName(season) THEN Raise("KeyError", "Name", <<>>)
    ELSE Built(BrowseMediaSource(Some(season.Id), MC_TV_SHOW, MEDIA_TYPE_NONE,
                                 season.Name[1], FALSE, TRUE, None),
               get_thumbnail_url(season), include_children,
               MC_EPISODE, build_episodes(season.Id))

seasons_of(fetched) ==
    LET seasons == sorted(fetched, "IndexNumber")
    IN  Collect([i \in 1..Len(seasons) |-> build_season(seasons[i], FALSE)])

build_seasons(series_id) ==
    LET fetched == get_children(series_id, ITEM_TYPE_SEASON)
    IN  Then(fetched.calls, seasons_of(fetched.value))

build_series(series, include_children) ==
    IF ~HasName(series) THEN Raise("KeyError", "Name", <<>>)
    ELSE Built(BrowseMediaSource(Some(series.Id), MC_TV_SHOW, MEDIA_TYPE_NONE,
                                 series.Name[1], FALSE, TRUE, None),
               get_thumbnail_url(series), include_children,
               MC_SEASON, build_seasons(series.Id))

series_of(fetched) ==
    LET series == sorted(fetched, "Name")
    IN  Collect([i \in 1..Len(series) |-> build_series(series[i], FALSE)])

build_tvshow(library_id) ==
    LET fetched == get_children(library_id, ITEM_TYPE_SERIES)
    IN  Then(fetched.calls, series_of(fetched.value))

build_tv_library(library, include_children) ==
    IF ~HasName(library) THEN Raise("KeyError", "Name", <<>>)
    ELSE Built(BrowseMediaSource(Some(library.Id), MC_DIRECTORY, MEDIA_TYPE_NONE,
                                 library.Name[1], FALSE, TRUE, None),
               NoThumbnail, include_children, MC_TV_SHOW, build_tvshow(library.Id))

----------------------------------------------------------------------------
(* Libraries, l.138-181 *)

build_library(library, include_children) ==
    IF library.CollectionType = None THEN Raise("KeyError", "CollectionType", <<>>)
    ELSE IF library.CollectionType[1] = COLLECTION_TYPE_MUSIC
    THEN build_music_library(library, include_children)
    ELSE IF library.CollectionType[1] = COLLECTION_TYPE_MOVIES
    THEN build_movie_library(library, include_children)
    ELSE build_tv_library(library, include_children)

\* the filter of _get_libraries without the test of l.167: any collection type passes
folders_with_collection_type(libraries) ==
    SelectSeq(libraries, LAMBDA library : library.CollectionType # None)

\* the filter of _get_libraries on the response["Items"], l.163-169
supported_libraries(libraries) ==
    SelectSeq(libraries, LAMBDA library :
        /\ library.CollectionType # None
        /\ library.CollectionType[1] \in SUPPORTED_COLLECTION_TYPES)

get_libraries ==
    Ok(supported_libraries(folders), <<Call("get_media_folders", "", "", "", folders)>>)

\* base.children = [build_library(library, False) for library in libraries]
libraries_of(libraries) ==
    LET base == [BrowseMediaSource(None, MC_DIRECTORY, MEDIA_TYPE_NONE, "Jellyfin",
                                   FALSE, TRUE, None)
                   EXCEPT !.children_media_class = MC_DIRECTORY]
        built == Collect([i \in 1..Len(libraries) |-> build_library(libraries[i], FALSE)])
    IN  IF built.ok THEN Ok([base EXCEPT !.children = Some(built.value)], built.calls)
        ELSE built

build_libraries == Then(get_libraries.calls, libraries_of(get_libraries.value))

----------------------------------------------------------------------------
(* The source facade, l.76-136 *)

\* the client property testing "is not None" in place of the truth of the entry map
client_if_not_none == IF hassData # "absent" THEN Some("jellyfin_client") ELSE None

\* the client property: None unless hass.data holds a non-empty entry map
client == IF hassData = "loaded" THEN Some("jellyfin_client") ELSE None

\* client.jellyfin.get_item(identifier): the item, or the client's error
get_item(id) ==
    IF Known(id)
    THEN Ok(ItemOf(id), <<Call("get_item", id, "", "", <<ItemOf(id)>>)>>)
    ELSE Raise("HTTPException", id, <<Call("get_item", id, "", "", <<>>)>>)

\* "not item.identifier"
Falsy(ident) == ident = "" \/ ident = PyNone

\* the dispatch on media_item["Type"], l.124-136
browse_item(media_item) ==
    LET item_type == media_item.Type
    IN  IF item_type = ITEM_TYPE_LIBRARY THEN build_library(media_item, TRUE)
        ELSE IF item_type = ITEM_TYPE_ARTIST THEN build_artist(media_item, TRUE)
        ELSE IF item_type = ITEM_TYPE_ALBUM THEN build_album(media_item, TRUE)
        ELSE IF item_type = ITEM_TYPE_SERIES THEN build_series(media_item, TRUE)
        ELSE IF item_type = ITEM_TYPE_SEASON THEN build_season(media_item, TRUE)
        ELSE Raise("BrowseError", item_type, <<>>)

async_browse_media(ident) ==
    IF client = None THEN Raise("BrowseError", "Jellyfin not initialized", <<>>)
    ELSE IF Falsy(ident) THEN build_libraries
    ELSE LET media_item == get_item(ident)
         IN  IF ~media_item.ok THEN media_item
             ELSE Then(media_item.calls, browse_item(media_item.value))

\* l.102-108 with the mime type computed and asserted before the stream URL
play_media_mime_first(media_item) ==
    LET stream_url == get_stream_url(media_item)
        mime_type == media_mime_type(media_item)
    IN  IF mime_type = PyNone
        THEN Raise("AssertionError", "mime_type is not None", <<>>)
        ELSE IF ~stream_url.ok THEN stream_url
        ELSE Ok([url |-> stream_url.value, mime_type |-> mime_type], stream_url.calls)

\* l.102-108: the stream URL, then the mime type, which is asserted
play_media(media_item) ==
    LET stream_url == get_stream_url(media_item)
        mime_type == media_mime_type(media_item)
    IN  IF ~stream_url.ok THEN stream_url
        ELSE IF mime_type = PyNone
        THEN Raise("AssertionError", "mime_type is not None", stream_url.calls)
        ELSE Ok([url |-> stream_url.value, mime_type |-> mime_type], stream_url.calls)

async_resolve_media(ident) ==
    IF client = None THEN Raise("Unresolvable", "Jellyfin not initialized", <<>>)
    ELSE LET media_item == get_item(ident)
         IN  IF ~media_item.ok THEN media_item
             ELSE Then(media_item.calls, play_media(media_item.value))

----------------------------------------------------------------------------
(* The catalogs the server may hold *)

MediaTypeOf(type) ==
    CASE type = ITEM_TYPE_AUDIO -> MEDIA_TYPE_AUDIO
      [] type \in {ITEM_TYPE_MOVIE, ITEM_TYPE_EPISODE} -> MEDIA_TYPE_VIDEO
      [] type = ITEM_TYPE_BOOK -> MEDIA_TYPE_BOOK
      [] OTHER -> MEDIA_TYPE_UNKNOWN

Item(id, type, parent, name, index, sources, tags) ==
    [Id |-> id, Type |-> type, ParentId |-> parent, Name |-> name,
     CollectionType |-> None, IndexNumber |-> index, MediaType |-> MediaTypeOf(type),
     ImageTags |-> tags, MediaSources |-> sources]

Library(id, name, collection_type) ==
    [Id |-> id, Type |-> ITEM_TYPE_LIBRARY, ParentId |-> "", Name |-> Some(name),
     CollectionType |-> collection_type, IndexNumber |-> None,
     MediaType |-> MEDIA_TYPE_UNKNOWN, ImageTags |-> {}, MediaSources |-> None]

Source(stem, ext) == [Path |-> Some([stem |-> stem, ext |-> ext])]
NoPath == [Path |-> None]

FolderId == <<"L1", "L2", "L3", "L4">>
KidId == <<"K1", "K2", "K3", "K4", "K5">>

Names == {None, Some("A"), Some("B")}
Indexes == {None, Some(1), Some(2)}
Tags == {{}, {"Primary"}}
CollectionTypes == {None} \cup {Some(c) : c \in SUPPORTED_COLLECTION_TYPES
                                              \cup {COLLECTION_TYPE_BOXSETS}}
\* media sources of a leaf: none derivable in the first five, derivable in the rest
AllSources == {None, Some(<<>>), Some(<<NoPath>>), Some(<<Source("f", "zzz")>>),
               Some(<<NoPath, Source("f", "mp3")>>),
               Some(<<Source("f", "mp3")>>), Some(<<Source("f", "mp4"), NoPath>>)}
KidSources == {None, Some(<<NoPath>>), Some(<<Source("f", "zzz")>>),
               Some(<<NoPath, Source("f", "mp3")>>), Some(<<Source("f", "mp3")>>)}
FewSources == {None, Some(<<Source("f", "mp3")>>)}

SeqsUpTo(S, n) == UNION {[1..k -> S] : k \in 0..n}


Catalog(fs, its) == [folders |-> fs, items |-> its]

\* only top-level folders, of every collection type
FolderCatalogs ==
    {Catalog([i \in 1..Len(cts) |-> Library(FolderId[i], IF i = 2 THEN "A" ELSE "B", cts[i])],
             <<>>) : cts \in SeqsUpTo(CollectionTypes, MaxFolders)}

\* kids of one type under the parent: the field the list is sorted by, the
\* thumbnail tag and the media sources vary
Kids(type, parent, choices) ==
    {[i \in 1..Len(c) |-> Item(KidId[i], type, parent, c[i].name, c[i].index,
                               c[i].sources, c[i].tags)] :
        c \in SeqsUpTo(choices, MaxItems)}

ByName == [name : Names \cup {Some("C")}, index : {None}, sources : {None}, tags : {{}}]
ByIndex == [name : {Some("A")}, index : Indexes, sources : {None}, tags : Tags]
LeafByName == [name : Names, index : {None}, sources : FewSources, tags : {{}}]
LeafByIndex == [name : {Some("A")}, index : Indexes, sources : FewSources, tags : {{}}]
LeafBySources ==
    [name : {Some("A")}, index : {Some(1)}, sources : KidSources, tags : {{"Primary"}}]

\* a music library holds artists and albums
MusicKids ==
    {[i \in 1..Len(c) |-> Item(KidId[i], c[i].type, "L1", c[i].name, None, None, {})] :
        c \in SeqsUpTo([type : {ITEM_TYPE_ARTIST, ITEM_TYPE_ALBUM}, name : Names],
                       MaxItems)}

LibraryCatalogs ==
    LET lib(ct) == <<Library("L1", "A", Some(ct))>>
    IN  {Catalog(lib(COLLECTION_TYPE_MUSIC), k) : k \in MusicKids}
        \cup {Catalog(lib(COLLECTION_TYPE_MOVIES), k) :
                 k \in Kids(ITEM_TYPE_MOVIE, "L1", LeafByName)
                       \cup Kids(ITEM_TYPE_MOVIE, "L1", LeafBySources)}
        \cup {Catalog(lib(COLLECTION_TYPE_TVSHOWS), k) :
                 k \in Kids(ITEM_TYPE_SERIES, "L1", ByName)}

ItemCatalogs ==
    LET top(type) == <<Item("P", type, "", Some("B"), None, None, {"Primary"})>>
    IN  {Catalog(<<>>, top(ITEM_TYPE_ARTIST) \o k) :
             k \in Kids(ITEM_TYPE_ALBUM, "P", ByName)}
        \cup {Catalog(<<>>, top(ITEM_TYPE_ALBUM) \o k) :
                 k \in Kids(ITEM_TYPE_AUDIO, "P", LeafByIndex)
                       \cup Kids(ITEM_TYPE_AUDIO, "P", LeafBySources)}
        \cup {Catalog(<<>>, top(ITEM_TYPE_SERIES) \o k) :
                 k \in Kids(ITEM_TYPE_SEASON, "P", ByIndex)}
        \cup {Catalog(<<>>, top(ITEM_TYPE_SEASON) \o k) :
                 k \in Kids(ITEM_TYPE_EPISODE, "P", LeafByIndex)
                       \cup Kids(ITEM_TYPE_EPISODE, "P", LeafBySources)}

\* one item of any type on its own
ItemTypes == {ITEM_TYPE_ARTIST, ITEM_TYPE_ALBUM, ITEM_TYPE_AUDIO, ITEM_TYPE_SERIES,
              ITEM_TYPE_SEASON, ITEM_TYPE_EPISODE, ITEM_TYPE_MOVIE, ITEM_TYPE_BOOK}

\* the types whose Name the sort keys allow to be absent
NamelessTypes == {ITEM_TYPE_ARTIST, ITEM_TYPE_ALBUM, ITEM_TYPE_SERIES, ITEM_TYPE_MOVIE}

SingleCatalogs ==
    UNION {{Catalog(<<>>, <<Item("P", type, "", name, None, sources, tags)>>) :
               name \in IF type \in NamelessTypes THEN {None, Some("A")} ELSE {Some("A")},
               tags \in Tags,
               sources \in AllSources \cup {Some(<<Source("f", "pdf")>>)}} :
           type \in ItemTypes}

\* a music library three levels deep: artist, album, track
NestedCatalogs ==
    {Catalog(<<Library("L1", "A", Some(COLLECTION_TYPE_MUSIC))>>,
             <<Item("K1", ITEM_TYPE_ARTIST, "L1", n1, None, None, {}),
               Item("K2", ITEM_TYPE_ALBUM, "K1", n2, None, None, {"Primary"}),
               Item("K3", ITEM_TYPE_AUDIO, "K2", Some("A"), Some(1), sources, {})>>) :
        n1 \in Names, n2 \in Names, sources \in FewSources}

Catalogs ==
    FolderCatalogs \cup LibraryCatalogs \cup ItemCatalogs \cup SingleCatalogs
    \cup NestedCatalogs

\* the identifiers a caller may pass: none, those of the catalog, a stale one
Identifiers ==
    {"", PyNone, "stale"} \cup {AllItems[i].Id : i \in 1..Len(AllItems)}

----------------------------------------------------------------------------
(* The state machine *)

NoOutcome == [kind |-> "none", detail |-> ""]

Init ==
    /\ hassData \in {"absent", "empty", "loaded"}
    /\ \E c \in Catalogs :
          /\ hassData # "loaded" => c \in FolderCatalogs \cup NestedCatalogs
          /\ folders = c.folders
          /\ items = c.items
    /\ op = "none"
    /\ identifier = ""
    /\ outcome = NoOutcome
    /\ node = None
    /\ play = None
    /\ calls = <<>>
    /\ offered = {}

\* the playable children of a returned node, with their content types
Playable(result) ==
    IF result.children = None THEN {}
    ELSE LET children == result.children[1]
         IN  {[id |-> children[i].identifier[1],
               mime |-> children[i].media_content_type] :
                 i \in {j \in 1..Len(children) : children[j].can_play}}

\* async_browse_media, l.110-136
Returned(ident, r) ==
    /\ identifier' = ident
    /\ outcome' = [kind |-> r.kind, detail |-> r.detail]
    /\ calls' = r.calls
    /\ IF op' = "browse"
       THEN /\ node' = IF r.ok THEN Some(r.value) ELSE None
            /\ play' = None
            /\ offered' = IF r.ok THEN offered \cup Playable(r.value) ELSE offered
       ELSE /\ node' = None
            /\ play' = IF r.ok THEN Some(r.value) ELSE None
            /\ offered' = offered

Browse(ident) ==
    /\ op' = "browse"
    /\ Returned(ident, async_browse_media(ident))
    /\ UNCHANGED <<hassData, folders, items>>

\* async_resolve_media, l.91-108
Resolve(ident) ==
    /\ op' = "resolve"
    /\ Returned(ident, async_resolve_media(ident))
    /\ UNCHANGED <<hassData, folders, items>>

\* the server's data changes between two calls: an item loses its media sources
ServerDropSources(i) ==
    /\ items[i].MediaSources # None
    /\ items' = [items EXCEPT ![i].MediaSources = None]
    /\ offered' = {}
    /\ op' = "none"
    /\ identifier' = ""
    /\ outcome' = NoOutcome
    /\ node' = None
    /\ play' = None
    /\ calls' = <<>>
    /\ UNCHANGED <<hassData, folders>>

Next ==
    \/ \E ident \in Identifiers : Browse(ident)
    \/ \E ident \in Identifiers : Resolve(ident)
    \/ \E i \in 1..Len(items) : ServerDropSources(i)

Spec == Init /\ [][Next]_vars

----------------------------------------------------------------------------
(* What the last call fetched and returned *)

Ran(name) == op = name /\ hassData = "loaded"
Returned_ok == outcome.kind = "ok"

QueryCalls == {i \in 1..Len(calls) : calls[i].op = "user_items"}
HasQuery == QueryCalls # {}
\* the children query of the last browse: its last user_items call
LastQuery == calls[CHOOSE i \in QueryCalls : \A j \in QueryCalls : j <= i]
Fetched == LastQuery.resp
Children == node[1].children[1]
HasChildren == node # None /\ node[1].children # None

IdsOf(s) == [i \in 1..Len(s) |-> s[i].Id]
NodeIds(s) == [i \in 1..Len(s) |-> s[i].identifier]
Derivable(it) == media_mime_type(it) # PyNone

----------------------------------------------------------------------------
(* C1: in a browse result, the children of a leaf kind (tracks, movies,    *)
(* episodes) are exactly the fetched items whose MIME type is derivable,    *)
(* each with can_play = TRUE and a content type that is not none; a fetched *)
(* item without a derivable MIME type is not among them.                    *)

C1_LeafChildrenArePlayable ==
    (Ran("browse") /\ HasChildren /\ HasQuery
        /\ LastQuery.itemType \in {ITEM_TYPE_AUDIO, ITEM_TYPE_MOVIE, ITEM_TYPE_EPISODE})
    => /\ \A i \in 1..Len(Children) :
             /\ Children[i].can_play
             /\ Children[i].media_content_type \notin {PyNone, MEDIA_TYPE_NONE}
             /\ \E j \in 1..Len(Fetched) :
                   /\ Some(Fetched[j].Id) = Children[i].identifier
                   /\ Derivable(Fetched[j])
       /\ \A j \in 1..Len(Fetched) :
             Derivable(Fetched[j]) <=>
                 \E i \in 1..Len(Children) : Children[i].identifier = Some(Fetched[j].Id)
       /\ Len(Children) = Cardinality({j \in 1..Len(Fetched) : Derivable(Fetched[j])})

\* a movie library was browsed; one fetched movie was kept, another dropped
C1_Witness ==
    /\ Ran("browse") /\ HasChildren /\ HasQuery
    /\ LastQuery.itemType = ITEM_TYPE_MOVIE
    /\ Len(Children) >= 1
    /\ \E j \in 1..Len(Fetched) :
          Fetched[j].MediaSources # None /\ ~Derivable(Fetched[j])

----------------------------------------------------------------------------
(* C2: while the catalog is unchanged, resolving an identifier that a      *)
(* browse returned as a playable child never fails the assertion on the     *)
(* MIME type, and the MIME type resolve returns is the content type of the  *)
(* child browse returned, which is not none.                                *)

C2_OfferedResolves ==
    \A o \in offered :
        (op = "resolve" /\ identifier = o.id)
        => /\ outcome.kind # "AssertionError"
           /\ o.mime # PyNone
           /\ play # None => play[1].mime_type = o.mime

\* a track that browse offered was resolved
C2_Witness ==
    /\ op = "resolve" /\ play # None
    /\ \E o \in offered : o.id = identifier /\ o.mime = "audio/mpeg"

----------------------------------------------------------------------------
(* The sort policy of the children lists *)

SortFieldOf(item_type) ==
    IF item_type \in {ITEM_TYPE_ARTIST, ITEM_TYPE_ALBUM, ITEM_TYPE_MOVIE, ITEM_TYPE_SERIES}
    THEN "Name" ELSE "IndexNumber"

HasField(it, field) == IF field = "Name" THEN it.Name # None ELSE it.IndexNumber # None
FieldValue(it, field) == IF field = "Name" THEN Ord(it.Name[1]) ELSE it.IndexNumber[1]

Mixed(s, field) ==
    \E i, j \in 1..Len(s) : HasField(s[i], field) /\ ~HasField(s[j], field)

DistinctKeys(s, field) ==
    /\ \A i \in 1..Len(s) : HasField(s[i], field)
    /\ \A i, j \in 1..Len(s) :
          i # j => FieldValue(s[i], field) # FieldValue(s[j], field)

\* the place in the response of the item a child node was built from
PlaceOf(child) == CHOOSE j \in 1..Len(Fetched) : Some(Fetched[j].Id) = child.identifier

\* children with the field first, ascending, then those without it as fetched
OrderedAsClaimed(field) ==
    /\ \A a \in 1..Len(Children) :
          \E j \in 1..Len(Fetched) : Some(Fetched[j].Id) = Children[a].identifier
    /\ \A a, b \in 1..Len(Children) :
          a < b =>
            LET x == Fetched[PlaceOf(Children[a])]
                y == Fetched[PlaceOf(Children[b])]
            IN  \/ HasField(x, field) /\ ~HasField(y, field)
                \/ /\ HasField(x, field) /\ HasField(y, field)
                   /\ FieldValue(x, field) <= FieldValue(y, field)
                \/ /\ ~HasField(x, field) /\ ~HasField(y, field)
                   /\ PlaceOf(Children[a]) < PlaceOf(Children[b])

\* every fetched item is a child, save those a leaf list drops for their MIME type
AllListed ==
    \A j \in 1..Len(Fetched) :
        (LastQuery.itemType \in PLAYABLE_ITEM_TYPES => Derivable(Fetched[j]))
        => \E a \in 1..Len(Children) : Children[a].identifier = Some(Fetched[j].Id)

\* the children list the builders make of a response
ListOf(item_type, fetched) ==
    CASE item_type = ITEM_TYPE_ARTIST -> artists_of(fetched)
      [] item_type = ITEM_TYPE_ALBUM -> albums_of(fetched)
      [] item_type = ITEM_TYPE_AUDIO -> tracks_of(fetched)
      [] item_type = ITEM_TYPE_MOVIE -> movies_of(fetched)
      [] item_type = ITEM_TYPE_SERIES -> series_of(fetched)
      [] item_type = ITEM_TYPE_SEASON -> seasons_of(fetched)
      [] item_type = ITEM_TYPE_EPISODE -> episodes_of(fetched)

Permuted(s, p) == [i \in 1..Len(s) |-> s[p[i]]]

\* every other order of the same response gives the children browse returned
SameInAnyOrder ==
    \A p \in Permutations(1..Len(Fetched)) :
        LET listing == ListOf(LastQuery.itemType, Permuted(Fetched, p))
        IN  listing.ok /\ listing.value = Children

----------------------------------------------------------------------------
(* C3: when some fetched children carry the sort field (Name for artists,  *)
(* albums, movies and series, IndexNumber for tracks, seasons and episodes) *)
(* and some do not, browse returns a children list with the children that   *)
(* have the field first, ascending, followed by those lacking it in fetched *)
(* order.                                                                   *)

C3_MixedListIsSorted ==
    (Ran("browse") /\ HasQuery /\ Mixed(Fetched, SortFieldOf(LastQuery.itemType)))
    => /\ HasChildren
       /\ OrderedAsClaimed(SortFieldOf(LastQuery.itemType))
       /\ AllListed

\* the part of C3 on the lists sorted by IndexNumber
C3_MixedIndexListIsSorted ==
    (Ran("browse") /\ HasQuery /\ SortFieldOf(LastQuery.itemType) = "IndexNumber")
    => /\ HasChildren
       /\ OrderedAsClaimed("IndexNumber")
       /\ AllListed

----------------------------------------------------------------------------
(* C4 as claimed: two responses to the same children query with the same   *)
(* items in a different order give the same ordered children list.          *)

----------------------------------------------------------------------------
(* C5: browse with an empty or absent identifier returns the root node     *)
(* (identifier none, Directory, can_play FALSE, can_expand TRUE, children   *)
(* media class Directory) whose children are the top-level folders with a   *)
(* supported collection type, one node each, in response order; folders     *)
(* with another or no collection type do not appear.                        *)

SupportedFolder(f) ==
    f.CollectionType \in {Some(COLLECTION_TYPE_MUSIC), Some(COLLECTION_TYPE_MOVIES),
                          Some(COLLECTION_TYPE_TVSHOWS)}

C5_RootListsSupportedFolders ==
    (Ran("browse") /\ Falsy(identifier))
    => /\ Returned_ok /\ HasChildren
       /\ node[1].identifier = None
       /\ node[1].media_class = MC_DIRECTORY
       /\ ~node[1].can_play
       /\ node[1].can_expand
       /\ node[1].children_media_class = MC_DIRECTORY
       /\ Len(calls) = 1 /\ calls[1].op = "get_media_folders"
       /\ LET listed == SelectSeq(calls[1].resp, SupportedFolder)
          IN  NodeIds(Children) = [i \in 1..Len(listed) |-> Some(listed[i].Id)]

\* the root was browsed: one folder is listed, another is left out
C5_Witness ==
    /\ Ran("browse") /\ Falsy(identifier) /\ HasChildren
    /\ Len(Children) >= 1
    /\ \E i \in 1..Len(calls[1].resp) :
          calls[1].resp[i].CollectionType = Some(COLLECTION_TYPE_BOXSETS)

----------------------------------------------------------------------------
(* C6: browse with a non-empty identifier fails with BrowseError and        *)
(* returns no node when the fetched item's type is not Library, Artist,     *)
(* Album, Series or Season; for each of these five types it returns a node  *)
(* built with its children.                                                 *)

GotItem == Len(calls) >= 1 /\ calls[1].op = "get_item" /\ calls[1].resp # <<>>
TheItem == calls[1].resp[1]

BrowsableTypes == {ITEM_TYPE_LIBRARY, ITEM_TYPE_ARTIST, ITEM_TYPE_ALBUM,
                   ITEM_TYPE_SERIES, ITEM_TYPE_SEASON}

C6_BrowseByType ==
    (Ran("browse") /\ GotItem)
    => IF TheItem.Type \notin BrowsableTypes
       THEN outcome = [kind |-> "BrowseError", detail |-> TheItem.Type] /\ node = None
       ELSE Returned_ok /\ HasChildren /\ node[1].identifier = Some(identifier)

\* the dispatch alone: the five types never end in BrowseError, and what they
\* return has children
C6_DispatchOnly ==
    (Ran("browse") /\ GotItem)
    => IF TheItem.Type \notin BrowsableTypes
       THEN outcome = [kind |-> "BrowseError", detail |-> TheItem.Type] /\ node = None
       ELSE /\ outcome.kind \in {"ok", "KeyError"}
            /\ Returned_ok => HasChildren /\ node[1].identifier = Some(identifier)

----------------------------------------------------------------------------
(* C7 as claimed: resolve returns the audio stream URL of the item when its *)
(* media type is Audio, the video stream URL when it is Video, and fails    *)
(* with BrowseError naming the media type otherwise, returning no URL.      *)

IsStream(name) ==
    /\ play # None
    /\ play[1].url = <<name, TheItem.Id>>
    /\ \E i \in 1..Len(calls) : calls[i].op = name /\ calls[i].id = TheItem.Id

Unsupported ==
    outcome = [kind |-> "BrowseError", detail |-> TheItem.MediaType] /\ play = None

C7_ResolveByMediaType ==
    (Ran("resolve") /\ GotItem)
    => CASE TheItem.MediaType = MEDIA_TYPE_AUDIO -> IsStream("audio_url")
         [] TheItem.MediaType = MEDIA_TYPE_VIDEO -> IsStream("video_url")
         [] OTHER -> Unsupported

(* C7 as amended: resolve returns the audio stream URL when the media type  *)
(* is Audio and a MIME type is derivable, the video stream URL when it is   *)
(* Video and a MIME type is derivable; for an Audio or Video item without a *)
(* derivable MIME type it fails the assertion and returns no URL; for any   *)
(* other media type it fails with BrowseError naming the media type,        *)
(* whether or not a MIME type is derivable, and returns no URL.             *)

C7_ResolveByMediaTypeAndMime ==
    (Ran("resolve") /\ GotItem)
    => CASE TheItem.MediaType \in {MEDIA_TYPE_AUDIO, MEDIA_TYPE_VIDEO}
                /\ ~Derivable(TheItem) ->
                outcome.kind = "AssertionError" /\ play = None
         [] TheItem.MediaType = MEDIA_TYPE_AUDIO /\ Derivable(TheItem) ->
                IsStream("audio_url") /\ play[1].mime_type = media_mime_type(TheItem)
         [] TheItem.MediaType = MEDIA_TYPE_VIDEO /\ Derivable(TheItem) ->
                IsStream("video_url") /\ play[1].mime_type = media_mime_type(TheItem)
         [] OTHER -> Unsupported

\* an item that is neither Audio nor Video, with a derivable MIME type, was resolved
C7_Witness ==
    /\ Ran("resolve") /\ GotItem
    /\ TheItem.MediaType = MEDIA_TYPE_BOOK
    /\ Derivable(TheItem)
    /\ outcome.kind = "BrowseError"

----------------------------------------------------------------------------
(* C8: browse of a Music library returns children media class Artist with   *)
(* Artist children whenever the artist query yields an artist, and then     *)
(* does not query albums; when the artist query yields none, it queries the *)
(* library's albums and returns children media class Album with Album       *)
(* children.                                                                *)

QueriesFor(item_type) ==
    {i \in QueryCalls : calls[i].itemType = item_type /\ calls[i].id = identifier}

C8_MusicLibraryChildren ==
    (Ran("browse") /\ GotItem /\ TheItem.Type = ITEM_TYPE_LIBRARY
        /\ TheItem.CollectionType = Some(COLLECTION_TYPE_MUSIC))
    => /\ QueriesFor(ITEM_TYPE_ARTIST) # {}
       /\ HasChildren
       /\ IF calls[CHOOSE i \in QueriesFor(ITEM_TYPE_ARTIST) : TRUE].resp # <<>>
          THEN /\ QueriesFor(ITEM_TYPE_ALBUM) = {}
               /\ node[1].children_media_class = MC_ARTIST
               /\ \A i \in 1..Len(Children) : Children[i].media_class = MC_ARTIST
          ELSE /\ QueriesFor(ITEM_TYPE_ALBUM) # {}
               /\ node[1].children_media_class = MC_ALBUM
               /\ \A i \in 1..Len(Children) : Children[i].media_class = MC_ALBUM

\* the same over the browses that return
C8_MusicLibraryChildrenWhenReturned ==
    (Ran("browse") /\ GotItem /\ TheItem.Type = ITEM_TYPE_LIBRARY
        /\ TheItem.CollectionType = Some(COLLECTION_TYPE_MUSIC))
    => /\ QueriesFor(ITEM_TYPE_ARTIST) # {}
       /\ outcome.kind \in {"ok", "KeyError"}
       /\ IF calls[CHOOSE i \in QueriesFor(ITEM_TYPE_ARTIST) : TRUE].resp # <<>>
          THEN /\ QueriesFor(ITEM_TYPE_ALBUM) = {}
               /\ Returned_ok =>
                     /\ node[1].children_media_class = MC_ARTIST
                     /\ \A i \in 1..Len(Children) : Children[i].media_class = MC_ARTIST
          ELSE /\ QueriesFor(ITEM_TYPE_ALBUM) # {}
               /\ Returned_ok =>
                     /\ node[1].children_media_class = MC_ALBUM
                     /\ \A i \in 1..Len(Children) : Children[i].media_class = MC_ALBUM

----------------------------------------------------------------------------
(* C9: without a client, browse fails with BrowseError and resolve with     *)
(* Unresolvable at once, for every identifier, the empty one included: no   *)
(* client operation is invoked, before the failure or to retry.             *)

C9_NoClientNoCalls ==
    (hassData # "loaded" /\ op # "none")
    => /\ calls = <<>>
       /\ node = None /\ play = None
       /\ outcome = [kind |-> IF op = "browse" THEN "BrowseError" ELSE "Unresolvable",
                     detail |-> "Jellyfin not initialized"]

\* the entry map is there but empty, and the root was browsed
C9_Witness ==
    /\ hassData = "empty" /\ op = "browse" /\ Falsy(identifier)
    /\ folders # <<>>
    /\ outcome.kind = "BrowseError"

----------------------------------------------------------------------------
(* C10: in a browse result with children, every child's media class is the  *)
(* node's children media class, and that is the class tabulated for the     *)
(* parent: Directory for the root, Artist (Album in the fallback) for a     *)
(* Music library, Movie for a Movies library, TvShow for a TV library,      *)
(* Album for an Artist, Track for an Album, Season for a Series, Episode    *)
(* for a Season.                                                            *)

Tabulated ==
    IF node[1].identifier = None THEN MC_DIRECTORY
    ELSE CASE TheItem.Type = ITEM_TYPE_ARTIST -> MC_ALBUM
           [] TheItem.Type = ITEM_TYPE_ALBUM -> MC_TRACK
           [] TheItem.Type = ITEM_TYPE_SERIES -> MC_SEASON
           [] TheItem.Type = ITEM_TYPE_SEASON -> MC_EPISODE
           [] TheItem.Type = ITEM_TYPE_LIBRARY ->
                  IF TheItem.CollectionType = Some(COLLECTION_TYPE_MUSIC)
                  THEN IF QueriesFor(ITEM_TYPE_ALBUM) = {} THEN MC_ARTIST ELSE MC_ALBUM
                  ELSE IF TheItem.CollectionType = Some(COLLECTION_TYPE_MOVIES)
                  THEN MC_MOVIE
                  ELSE MC_TV_SHOW

C10_ChildrenMediaClass ==
    (Ran("browse") /\ HasChildren)
    => /\ node[1].children_media_class = Tabulated
       /\ \A i \in 1..Len(Children) :
             Children[i].media_class = node[1].children_media_class

\* the same, a Series with its seasons left aside
C10_ChildrenMediaClassButSeasons ==
    (Ran("browse") /\ HasChildren /\ node[1].children_media_class # MC_SEASON)
    => /\ node[1].children_media_class = Tabulated
       /\ \A i \in 1..Len(Children) :
             Children[i].media_class = node[1].children_media_class

----------------------------------------------------------------------------
(* C11: a browse that returns populates children at exactly one level: the  *)
(* returned node carries a children list and a children media class, every  *)
(* child in that list carries neither, and no children query is issued for  *)
(* a child: every query is for the browsed identifier, and browse with an   *)
(* empty identifier issues only the media-folders call.                     *)

ChildIds == {Children[i].identifier[1] : i \in 1..Len(Children)}

C11_ChildrenAtOneLevel ==
    (Ran("browse") /\ Returned_ok)
    => /\ HasChildren
       /\ node[1].children_media_class # PyNone
       /\ \A i \in 1..Len(Children) :
             /\ Children[i].children = None
             /\ Children[i].children_media_class = PyNone
       /\ \A q \in QueryCalls :
             calls[q].id = identifier /\ calls[q].id \notin ChildIds
       /\ Falsy(identifier) =>
             Len(calls) = 1 /\ calls[1].op = "get_media_folders"

\* an artist was browsed whose album, returned as a child, has a track of its own
C11_Witness ==
    /\ Ran("browse") /\ Returned_ok /\ HasChildren
    /\ \E i \in 1..Len(Children) : \E k \in 1..Len(items) :
          /\ items[k].ParentId = Children[i].identifier[1]
          /\ items[k].Type = ITEM_TYPE_AUDIO
          /\ Children[i].media_class = MC_ALBUM

----------------------------------------------------------------------------
(* C12: the MIME type of an item depends on its first media source only: it *)
(* is none when the media sources are absent or empty, none when the first  *)
(* source has no path even if a later source has one, and otherwise the     *)
(* type mapped from the extension of the first source's path, none when no  *)
(* mapping matches. What resolve returns for an Audio or Video item is that *)
(* type, and the leaf children of a browse are the fetched items for which  *)
(* it is not none, so an item whose only usable path lies in a later source *)
(* is not among them.                                                       *)

MappedFrom(ext) ==
    IF ext = "mp3" THEN "audio/mpeg"
    ELSE IF ext = "mp4" THEN "video/mp4"
    ELSE IF ext = "pdf" THEN "application/pdf"
    ELSE PyNone

FirstSourceMime(it) ==
    IF it.MediaSources = None THEN PyNone
    ELSE IF Len(it.MediaSources[1]) = 0 THEN PyNone
    ELSE IF Head(it.MediaSources[1]).Path = None THEN PyNone
    ELSE MappedFrom(Head(it.MediaSources[1]).Path[1].ext)

\* the usable path of the item is not in its first source
OnlyLaterPath(it) ==
    /\ it.MediaSources # None
    /\ Len(it.MediaSources[1]) >= 2
    /\ it.MediaSources[1][1].Path = None
    /\ \E k \in 2..Len(it.MediaSources[1]) :
          /\ it.MediaSources[1][k].Path # None
          /\ MappedFrom(it.MediaSources[1][k].Path[1].ext) # PyNone

C12_MimeFromFirstSourceOnly ==
    /\ (Ran("resolve") /\ GotItem
            /\ TheItem.MediaType \in {MEDIA_TYPE_AUDIO, MEDIA_TYPE_VIDEO})
       => IF FirstSourceMime(TheItem) = PyNone
          THEN outcome.kind = "AssertionError" /\ play = None
          ELSE play # None /\ play[1].mime_type = FirstSourceMime(TheItem)
    /\ (Ran("browse") /\ HasChildren /\ HasQuery
            /\ LastQuery.itemType \in PLAYABLE_ITEM_TYPES)
       => /\ \A j \in 1..Len(Fetched) :
                IF FirstSourceMime(Fetched[j]) = PyNone
                THEN \A i \in 1..Len(Children) :
                        Children[i].identifier # Some(Fetched[j].Id)
                ELSE \E i \in 1..Len(Children) :
                        /\ Children[i].identifier = Some(Fetched[j].Id)
                        /\ Children[i].media_content_type = FirstSourceMime(Fetched[j])
          /\ \A j \in 1..Len(Fetched) :
                OnlyLaterPath(Fetched[j]) =>
                    Some(Fetched[j].Id) \notin {Children[i].identifier : i \in 1..Len(Children)}

\* an album was browsed: a track with a path in its first source is a child, a
\* track whose only path is in its second source was fetched and left out
C12_Witness ==
    /\ Ran("browse") /\ HasChildren /\ HasQuery
    /\ LastQuery.itemType = ITEM_TYPE_AUDIO
    /\ Len(Children) >= 1
    /\ \E j \in 1..Len(Fetched) : OnlyLaterPath(Fetched[j])

====
